---------------------------- MODULE Spec2Model ----------------------------
(***************************************************************************)
(* A model of package rid (github.com/solutionroute/rid): the 15-byte ID,  *)
(* its custom Base32 text codec, FromString / FromBytes, Compare and Sort, *)
(* the text, SQL and JSON adapters, the field accessors, ID generation     *)
(* (New / NewWithTimestamp) by concurrent callers, and command rid.        *)
(*                                                                         *)
(* Conventions.  A Go byte is an integer in 0..255.  A []byte, a string    *)
(* and an ID are sequences of bytes; Go index k is index k+1 here.  A      *)
(* uint64 is the sequence of its 8 bytes, most significant first, so that  *)
(* byte(x >> 8*k) is x[8-k] and no 64-bit arithmetic is needed.            *)
(***************************************************************************)
EXTENDS Integers, Sequences, FiniteSets, TLC

VARIABLES
    id,      \* codec harness: the ID value held by the caller / receiver
    buf,     \* codec harness: the []byte / string held by the caller
    err,     \* codec harness: the error returned by the last call
    op,      \* the last function the caller called
    prev,    \* the function the caller called before that
    ids,     \* order harness: the []ID slice handed to Compare / Sort
    ids0,    \* order harness: the slice as it was first built
    cmp,     \* order harness: the last Compare call and its result
    rtsig,   \* package variable rtsig ([]byte of length 1)
    calls,   \* one record per invocation of New / NewWithTimestamp
    local,   \* the storage of each invocation's local variable `id`
    probe,   \* the last IsNil / accessor call and its result
    cli      \* command rid: main's position, its variables, calls and output

vars == <<id, buf, err, op, prev, ids, ids0, cmp, rtsig, calls, local, probe, cli>>

codecVars == <<id, buf, err>>
orderVars == <<ids, ids0, cmp>>
genVars   == <<rtsig, calls, local, probe>>
cliVars   == <<cli>>

-----------------------------------------------------------------------------
(* Constants of the package.                                               *)

rawLen == 15

encodedLen == 24

Byte == 0..255

\* charset = "0123456789abcdefghjkmnpqrstvwxyz", as ASCII codes
charset ==
    << 48, 49, 50, 51, 52, 53, 54, 55, 56, 57,          \* 0-9
       97, 98, 99, 100, 101, 102, 103, 104,             \* a-h
       106, 107,                                        \* j k
       109, 110,                                        \* m n
       112, 113, 114, 115, 116,                         \* p-t
       118, 119, 120, 121, 122 >>                       \* v-z

\* var nilID ID: the zero value of [15]byte
nilID == [i \in 1..rawLen |-> 0]

NoErr == "nil"

ErrInvalidID == "rid: invalid id"

-----------------------------------------------------------------------------
(* Byte arithmetic: Go's operators on uint8.                               *)

\* byte(b << k)
Shl(b, k) == (b * (2^k)) % 256

\* b >> k
Shr(b, k) == b \div (2^k)

\* a | b
RECURSIVE Or(_, _)
Or(a, b) ==
    IF a = 0 THEN b
    ELSE IF b = 0 THEN a
    ELSE (IF a % 2 = 1 \/ b % 2 = 1 THEN 1 ELSE 0) + 2 * Or(a \div 2, b \div 2)

\* b & 0x1F
And1F(b) == b % 32

-----------------------------------------------------------------------------
(* The decoding table dec [256]byte built by init(); dec[c] is DecTable[c]. *)

\* the index i with charset[i] = c written last by the second loop of init()
CharsetIndex(c) ==
    (CHOOSE i \in 1..Len(charset) :
        /\ charset[i] = c
        /\ \A j \in 1..Len(charset) : charset[j] = c => j <= i) - 1

InitDec(c) ==
    IF \E i \in 1..Len(charset) : charset[i] = c THEN CharsetIndex(c) ELSE 255

DecTable == [c \in Byte |-> InitDec(c)]

-----------------------------------------------------------------------------
(* encoding = base32.NewEncoding(charset).WithPadding(-1): the standard     *)
(* library's Encode and Decode on whole 5-byte / 8-character quanta (15    *)
(* bytes are 3 quanta, 24 characters are 3 quanta, no padding).            *)

\* the eight 5-bit groups of the 5 bytes s
Quantum5(s) ==
    << Shr(s[1], 3),
       Or(And1F(Shl(s[1], 2)), And1F(Shr(s[2], 6))),
       And1F(Shr(s[2], 1)),
       Or(And1F(Shl(s[2], 4)), And1F(Shr(s[3], 4))),
       Or(And1F(Shl(s[3], 1)), Shr(s[4], 7)),
       And1F(Shr(s[4], 2)),
       Or(And1F(Shl(s[4], 3)), Shr(s[5], 5)),
       And1F(s[5]) >>

\* a faulty encoder: the alphabet of standard Base32hex "0123456789abcdefghijklmnopqrstuv"
EncodeCharStd(v) == IF v < 10 THEN 48 + v ELSE 97 + (v - 10)

\* enc.encode[v & 31]
EncodeChar(v) == charset[And1F(v) + 1]

\* encoding.Encode(dst, src) for len(src) a multiple of 5: the text written to dst
RECURSIVE Base32Encode(_)
Base32Encode(src) ==
    IF Len(src) < 5 THEN << >>
    ELSE LET q == Quantum5(SubSeq(src, 1, 5))
         IN  [i \in 1..8 |-> EncodeChar(q[i])] \o Base32Encode(SubSeq(src, 6, Len(src)))

\* func encode(dst, id []byte): the text written to dst
encode(src) == Base32Encode(src)

\* a faulty decoder: the last group of a quantum is shifted in, not or-ed in
Bytes5Shifted(d) ==
    << Or(Shl(d[1], 3), Shr(d[2], 2)),
       Or(Or(Shl(d[2], 6), Shl(d[3], 1)), Shr(d[4], 4)),
       Or(Shl(d[4], 4), Shr(d[5], 1)),
       Or(Or(Shl(d[5], 7), Shl(d[6], 2)), Shr(d[7], 3)),
       Or(Shl(d[7], 5), Shr(d[8], 1)) >>

\* the 5 bytes of the eight 5-bit groups d
Bytes5(d) ==
    << Or(Shl(d[1], 3), Shr(d[2], 2)),
       Or(Or(Shl(d[2], 6), Shl(d[3], 1)), Shr(d[4], 4)),
       Or(Shl(d[4], 4), Shr(d[5], 1)),
       Or(Or(Shl(d[5], 7), Shl(d[6], 2)), Shr(d[7], 3)),
       Or(Shl(d[7], 5), d[8]) >>

\* enc.decodeMap of the encoding: built from the same alphabet by NewEncoding
DecodeMap ==
    [c \in Byte |-> IF \E i \in 1..Len(charset) : charset[i] = c
                    THEN CharsetIndex(c) ELSE 255]

\* encoding.Decode(dst, src) for len(src) a multiple of 8: dst afterwards and
\* the error; a quantum holding a byte outside the alphabet stops the
\* decoding (CorruptInputError) with the earlier quanta already written.
RECURSIVE Base32Decode(_, _, _)
Base32Decode(dst, src, at) ==
    IF Len(src) < 8 THEN [dst |-> dst, err |-> NoErr]
    ELSE LET d == [i \in 1..8 |-> DecodeMap[src[i]]]
         IN  IF \E i \in 1..8 : d[i] = 255
             THEN [dst |-> dst, err |-> "base32: illegal input"]
             ELSE LET b == Bytes5(d)
                      w == [k \in 1..Len(dst) |->
                               IF k > at /\ k <= at + 5 THEN b[k - at] ELSE dst[k]]
                  IN  Base32Decode(w, SubSeq(src, 9, Len(src)), at + 5)

\* func decode(id *ID, src []byte) (int, error)
decode(idv, src) == Base32Decode(idv, src, 0)

-----------------------------------------------------------------------------
(* The package's functions on IDs, as operators.                           *)

\* func (id ID) String() string
String(idv) == encode(idv)

\* func (id ID) Bytes() []byte
Bytes(idv) == idv

\* a faulty IsNil: only the timestamp is looked at
IsNilTimestamp(idv) == \A i \in 1..6 : idv[i] = 0

\* func (id ID) IsNil() bool
IsNil(idv) == idv = nilID

\* func NilID() ID
NilID == nilID

\* a faulty UnmarshalText: the length of the text is not checked
UnmarshalTextNoLen(idv, text) ==
    IF \E i \in 1..Len(text) : DecTable[text[i]] = 255
    THEN [id |-> nilID, err |-> ErrInvalidID]
    ELSE LET r == decode(idv, text)
         IN  IF r.err # NoErr THEN [id |-> nilID, err |-> ErrInvalidID]
             ELSE [id |-> r.dst, err |-> NoErr]

\* a faulty UnmarshalText: the receiver is left as it was when the text is
\* rejected
UnmarshalTextKeeps(idv, text) ==
    IF Len(text) # encodedLen THEN [id |-> idv, err |-> ErrInvalidID]
    ELSE IF \E i \in 1..Len(text) : DecTable[text[i]] = 255
         THEN [id |-> idv, err |-> ErrInvalidID]
         ELSE LET r == decode(idv, text)
              IN  IF r.err # NoErr THEN [id |-> idv, err |-> ErrInvalidID]
                  ELSE [id |-> r.dst, err |-> NoErr]

\* func (id *ID) UnmarshalText(text []byte) error: the receiver afterwards
\* and the error
UnmarshalText(idv, text) ==
    IF Len(text) # encodedLen THEN [id |-> nilID, err |-> ErrInvalidID]
    ELSE IF \E i \in 1..Len(text) : DecTable[text[i]] = 255
         THEN [id |-> nilID, err |-> ErrInvalidID]
         ELSE LET r == decode(idv, text)
              IN  IF r.err # NoErr THEN [id |-> nilID, err |-> ErrInvalidID]
                  ELSE [id |-> r.dst, err |-> NoErr]

\* func FromString(str string) (ID, error)
FromString(str) == UnmarshalText(nilID, str)

\* a faulty FromBytes: the length of the former 12-byte layout
FromBytes12(b) ==
    IF Len(b) # 12 THEN [id |-> nilID, err |-> ErrInvalidID]
    ELSE [id |-> [i \in 1..rawLen |-> IF i <= Len(b) THEN b[i] ELSE 0], err |-> NoErr]

\* func FromBytes(b []byte) (ID, error)
FromBytes(b) ==
    IF Len(b) # rawLen THEN [id |-> nilID, err |-> ErrInvalidID]
    ELSE [id |-> [i \in 1..rawLen |-> b[i]], err |-> NoErr]

\* the kinds of value handed to Scan that its type switch tells apart; "int"
\* stands for every type the default branch takes
ScanKinds == {"string", "[]byte", "nil", "int"}

\* the error built by fmt.Errorf("rid: unsupported type: %T, value: %#v", ...)
ErrUnsupportedType == "rid: unsupported type"

\* a faulty Scan: a []byte value is handed to FromBytes
ScanRawBytes(idv, kind, val) ==
    IF kind = "string" THEN UnmarshalText(idv, val)
    ELSE IF kind = "[]byte" THEN FromBytes(val)
    ELSE IF kind = "nil" THEN [id |-> nilID, err |-> NoErr]
    ELSE [id |-> idv, err |-> ErrUnsupportedType]

\* func (id *ID) Scan(value interface{}) (err error): the receiver afterwards
\* and the error
Scan(idv, kind, val) ==
    IF kind = "string" THEN UnmarshalText(idv, val)
    ELSE IF kind = "[]byte" THEN UnmarshalText(idv, val)
    ELSE IF kind = "nil" THEN [id |-> nilID, err |-> NoErr]
    ELSE [id |-> idv, err |-> ErrUnsupportedType]

\* the JSON token null
null == <<110, 117, 108, 108>>

\* the double quote '"'
QuoteChar == 34

\* a faulty MarshalJSON: the nil ID is quoted like every other ID
MarshalJSONNoNull(idv) == <<QuoteChar>> \o encode(idv) \o <<QuoteChar>>

\* func (id ID) MarshalJSON() ([]byte, error): the bytes (the error is nil)
MarshalJSON(idv) ==
    IF idv = nilID THEN null
    ELSE <<QuoteChar>> \o encode(idv) \o <<QuoteChar>>

\* the run-time panic of a slice expression text[low:high] with low > high
\* or high < 0; the call does not return
PanicSliceBounds == "panic: runtime error: slice bounds out of range"

\* a guarded UnmarshalJSON: a text that is not null and not double-quoted is
\* answered with ErrInvalidID
UnmarshalJSONGuarded(idv, text) ==
    IF text = null THEN [id |-> nilID, err |-> NoErr]
    ELSE IF Len(text) < 2 \/ text[1] # QuoteChar \/ text[Len(text)] # QuoteChar
         THEN [id |-> nilID, err |-> ErrInvalidID]
         ELSE UnmarshalText(idv, SubSeq(text, 2, Len(text) - 1))

\* func (id *ID) UnmarshalJSON(text []byte) error: the receiver afterwards and
\* the error; text[1 : len(text)-1] panics when len(text) < 2, before the
\* receiver is written
UnmarshalJSON(idv, text) ==
    IF text = null THEN [id |-> nilID, err |-> NoErr]
    ELSE IF Len(text) < 2 THEN [id |-> idv, err |-> PanicSliceBounds]
         ELSE UnmarshalText(idv, SubSeq(text, 2, Len(text) - 1))


\* bytes.Compare(a, b)
RECURSIVE BytesCompare(_, _)
BytesCompare(a, b) ==
    IF Len(a) = 0 /\ Len(b) = 0 THEN 0
    ELSE IF Len(a) = 0 THEN -1
    ELSE IF Len(b) = 0 THEN 1
    ELSE IF a[1] < b[1] THEN -1
    ELSE IF a[1] > b[1] THEN 1
    ELSE BytesCompare(Tail(a), Tail(b))

\* a faulty Compare: the whole IDs are compared, as bytes.Compare(b1[:], b2[:])
CompareWhole(idv, other) == BytesCompare(idv, other)

\* func (id ID) Compare(other ID) int
Compare(idv, other) == BytesCompare(SubSeq(idv, 1, 5), SubSeq(other, 1, 5))

\* func (s sorter) Len() int
sorterLen(s) == Len(s)

\* func (s sorter) Less(i, j int) bool
sorterLess(s, i, j) == Compare(s[i + 1], s[j + 1]) < 0

\* a faulty Swap: s[i] = s[j]; s[j] = s[i]
sorterSwapSeq(s, i, j) == [s EXCEPT ![i + 1] = s[j + 1]]

\* func (s sorter) Swap(i, j int)
sorterSwap(s, i, j) == [s EXCEPT ![i + 1] = s[j + 1], ![j + 1] = s[i + 1]]

\* sort.Sort's insertion sort of data[a:b], the algorithm it runs on a slice
\* of at most 12 elements:
\*   for i := a + 1; i < b; i++ {
\*       for j := i; j > a && data.Less(j, j-1); j-- { data.Swap(j, j-1) } }
RECURSIVE InsertionInner(_, _, _)
InsertionInner(s, a, j) ==
    IF j > a /\ sorterLess(s, j, j - 1)
    THEN InsertionInner(sorterSwap(s, j, j - 1), a, j - 1)
    ELSE s

RECURSIVE InsertionOuter(_, _, _, _)
InsertionOuter(s, a, b, i) ==
    IF i < b THEN InsertionOuter(InsertionInner(s, a, i), a, b, i + 1) ELSE s

insertionSort(s, a, b) == InsertionOuter(s, a, b, a + 1)

\* func Sort(ids []ID): the slice afterwards
Sort(s) ==
    LET n == sorterLen(s)
    IN  IF n <= 1 THEN s ELSE insertionSort(s, 0, n)


\* byte(x >> k) of a uint64 x, for k a multiple of 8
U64Byte(x, k) == x[8 - (k \div 8)]

\* a faulty layout: the timestamp written least significant byte first
WriteTimestampLE(idv, ts) ==
    [idv EXCEPT ![1] = U64Byte(ts, 0), ![2] = U64Byte(ts, 8), ![3] = U64Byte(ts, 16),
                ![4] = U64Byte(ts, 24), ![5] = U64Byte(ts, 32), ![6] = U64Byte(ts, 40)]

\* NewWithTimestamp: id[0] = byte(ts >> 40) ... id[5] = byte(ts)
WriteTimestamp(idv, ts) ==
    [idv EXCEPT ![1] = U64Byte(ts, 40), ![2] = U64Byte(ts, 32), ![3] = U64Byte(ts, 24),
                ![4] = U64Byte(ts, 16), ![5] = U64Byte(ts, 8), ![6] = U64Byte(ts, 0)]

\* NewWithTimestamp: id[6] = rtsig[0]
WriteSignature(idv, sig) == [idv EXCEPT ![7] = sig[1]]

\* a faulty layout: a 6-byte random number, the draw's low 48 bits cut off
WriteRandom48(idv, rv) ==
    [idv EXCEPT ![8] = U64Byte(rv, 56), ![9] = U64Byte(rv, 48), ![10] = U64Byte(rv, 40),
                ![11] = U64Byte(rv, 32), ![12] = U64Byte(rv, 24), ![13] = U64Byte(rv, 16)]

\* NewWithTimestamp: id[7] = byte(rv >> 56) ... id[14] = byte(rv)
WriteRandom(idv, rv) ==
    [idv EXCEPT ![8] = U64Byte(rv, 56), ![9] = U64Byte(rv, 48), ![10] = U64Byte(rv, 40),
                ![11] = U64Byte(rv, 32), ![12] = U64Byte(rv, 24), ![13] = U64Byte(rv, 16),
                ![14] = U64Byte(rv, 8), ![15] = U64Byte(rv, 0)]


\* a faulty Timestamp: b := id[1:7], one byte too far
TimestampShifted(idv) ==
    <<0, 0, idv[2], idv[3], idv[4], idv[5], idv[6], idv[7]>>

\* func (id ID) Timestamp() int64: uint64(b[0])<<40 | ... | uint64(b[5]) for
\* b = id[0:6], as the 8 bytes of the int64
Timestamp(idv) ==
    <<0, 0, idv[1], idv[2], idv[3], idv[4], idv[5], idv[6]>>

\* func (id ID) RuntimeSignature() []byte
RuntimeSignature(idv) == SubSeq(idv, 7, 7)

\* func (id ID) Random() uint64: uint64(b[0])<<40 | ... | uint64(b[5]) for
\* b = id[7:], as the 8 bytes of the uint64
Random(idv) ==
    <<0, 0, idv[8], idv[9], idv[10], idv[11], idv[12], idv[13]>>

\* the alphabet of base64.StdEncoding, as ASCII codes: A-Z a-z 0-9 + /
encodeStd ==
    [i \in 1..64 |->
        IF i <= 26 THEN 64 + i
        ELSE IF i <= 52 THEN 70 + i
        ELSE IF i <= 62 THEN i - 5
        ELSE IF i = 63 THEN 43 ELSE 47]

\* the four 6-bit groups of the 3 bytes s
Quantum3(s) ==
    << Shr(s[1], 2),
       Or(Shl(s[1], 4) % 64, Shr(s[2], 4)),
       Or(Shl(s[2], 2) % 64, Shr(s[3], 6)),
       s[3] % 64 >>

\* encoding64.Encode(dst, src) for len(src) a multiple of 3: the text written
RECURSIVE Base64Encode(_)
Base64Encode(src) ==
    IF Len(src) < 3 THEN << >>
    ELSE LET q == Quantum3(SubSeq(src, 1, 3))
         IN  [i \in 1..4 |-> encodeStd[q[i] + 1]] \o Base64Encode(SubSeq(src, 4, Len(src)))

\* func String64(id ID) string
String64(idv) == Base64Encode(idv)

\* encoding.Decode(dst, src) for a src of one 8-character quantum and 4
\* characters more, which the unpadded encoding takes as 2 bytes more
Base32Decode12(dst, src) ==
    LET head == Base32Decode(dst, SubSeq(src, 1, 8), 0)
        d == [i \in 1..4 |-> DecodeMap[src[8 + i]]]
    IN  IF head.err # NoErr THEN head
        ELSE IF \E i \in 1..4 : d[i] = 255
             THEN [dst |-> head.dst, err |-> "base32: illegal input"]
             ELSE [dst |-> [head.dst EXCEPT
                              ![6] = Or(Shl(d[1], 3), Shr(d[2], 2)),
                              ![7] = Or(Or(Shl(d[2], 6), Shl(d[3], 1)), Shr(d[4], 4))],
                   err |-> NoErr]

\* func FromString64(str string) (*ID, error): the ID pointed to and the
\* error; encoded64Len is (rawLen / 5) * 4, and the text is handed to the
\* Base32 decode
FromString64(str) ==
    LET encoded64Len == (rawLen \div 5) * 4
    IN  IF Len(str) # encoded64Len THEN [id |-> nilID, err |-> ErrInvalidID]
        ELSE LET r == Base32Decode12(nilID, str)
             IN  IF r.err # NoErr THEN [id |-> r.dst, err |-> ErrInvalidID]
                 ELSE [id |-> r.dst, err |-> NoErr]

-----------------------------------------------------------------------------
(* The codec harness: a caller holding an ID and a byte slice, calling the *)
(* package's conversion functions on them in any order.                    *)

MaxTextLen == 26

MaxBytesLen == 17

\* single bits, all bits, and a mixed pattern
ByteSamples == {0, 1, 2, 4, 8, 16, 32, 64, 128, 255, 77}

\* the ID of TestIDString / TestFromString, zero-extended to 15 bytes
TestVecID == <<77, 136, 225, 91, 96, 244, 134, 228, 40, 65, 45, 201, 0, 0, 0>>

AllOnesID == [i \in 1..rawLen |-> 255]

\* s with element p replaced by v
Vary(s, p, v) == [i \in 1..Len(s) |-> IF i = p THEN v ELSE s[i]]

CodecIDs ==
    {nilID, AllOnesID, TestVecID}
    \cup {Vary(b, p, v) : b \in {nilID, AllOnesID}, p \in 1..rawLen, v \in ByteSamples}

\* "0123456789abcdefghjkmnpq"
TextA == SubSeq(charset, 1, encodedLen)

\* "zyxwvtsrqpnmkjhgfedcba98"
TextB == [i \in 1..encodedLen |-> charset[Len(charset) + 1 - i]]

\* t cut or extended (with "0") to length n
Resize(t, n) == [i \in 1..n |-> IF i <= Len(t) THEN t[i] ELSE 48]

CodecTexts ==
    {TextA, TextB}
    \cup {Resize(TextA, n) : n \in 0..MaxTextLen}
    \cup {Vary(TextA, p, c) : p \in 1..encodedLen, c \in Byte}

CodecBytes == {Resize(TestVecID, n) : n \in 0..MaxBytesLen}

\* c in upper case, as unicode.ToUpper does on an ASCII letter
UpperCase(c) == IF c \in 97..122 THEN c - 32 ELSE c

\* t with the letters at the positions in P converted to upper case
ToUpper(t, P) == [i \in 1..Len(t) |-> IF i \in P THEN UpperCase(t[i]) ELSE t[i]]

\* c in lower case
LowerCase(c) == IF c \in 65..90 THEN c + 32 ELSE c

\* t with all its letters converted to lower case
ToLower(t) == [i \in 1..Len(t) |-> LowerCase(t[i])]

\* "9p4e2pv0yj3e8a215q4g", the text of TestIDString / TestFromString
TestVecText ==
    <<57, 112, 52, 101, 50, 112, 118, 48, 121, 106,
      51, 101, 56, 97, 50, 49, 53, 113, 52, 103>>

\* texts in upper and mixed case, and the 20-character text of the tests
CodecCaseTexts ==
    {ToUpper(t, 1..encodedLen) : t \in {TextA, TextB, String(TestVecID)}}
    \cup {ToUpper(TextA, {11, 13, 24}), TestVecText, ToUpper(TestVecText, 1..20),
          Resize(TestVecText, encodedLen)}

\* t between two double quotes
Quote(t) == <<QuoteChar>> \o t \o <<QuoteChar>>

\* JSON inputs: null and its neighbours, the shortest inputs, quoted valid
\* and invalid texts, and a valid text between bytes that are not quotes
CodecJSON ==
    {null, SubSeq(null, 1, 3), null \o <<32>>, <<QuoteChar>>, <<QuoteChar, QuoteChar>>}
    \cup {Quote(t) : t \in {TextA, TextB, ToUpper(TextA, 1..encodedLen),
                           Resize(TextA, 23), Resize(TextA, 25), Vary(TextA, 24, 105)}}
    \cup {Vary(Quote(TextA), p, c) : p \in {1, 26}, c \in {0, 39, 48, 91}}

\* IDs a receiver holds before a parse
CodecReceivers == {nilID, AllOnesID}

\* IDs that are marshalled first
AdapterIDs ==
    {nilID, AllOnesID, TestVecID}
    \cup {Vary(nilID, p, v) : p \in {1, 7, rawLen}, v \in {1, 128}}

\* inputs parsed into a receiver that may hold an ID already: JSON, raw
\* bytes of 15 and other lengths, texts of 24 and other lengths, texts in
\* upper case and texts with a byte outside the alphabet
CodecReparsed ==
    CodecJSON \cup CodecCaseTexts
    \cup {Resize(TestVecID, n) : n \in {0, 12, 14, 15, 16}}
    \cup {Resize(TextA, n) : n \in {0, 1, 2, 20, 23, 24, 25, 26}}
    \cup {Vary(TextA, p, c) : p \in {1, 9, 24}, c \in {0, 65, 105}}

NoCompare == [a |-> nilID, b |-> nilID, r |-> 0]

InitCodecIdle == id = nilID /\ buf = << >> /\ err = NoErr

InitOrderIdle == ids = << >> /\ ids0 = << >> /\ cmp = NoCompare

NoProbe == [called |-> FALSE, id |-> nilID, r |-> FALSE]

InitGenIdle == rtsig = <<0>> /\ calls = << >> /\ local = << >> /\ probe = NoProbe

\* command rid not started
NoCLI == [pc |-> "off"]

InitCLIIdle == cli = NoCLI

InitCodec ==
    /\ \/ id \in CodecIDs /\ buf = << >>
       \/ id = nilID /\ buf \in CodecTexts \cup CodecBytes \cup CodecCaseTexts
    /\ err = NoErr
    /\ op = "init"
    /\ prev = "init"
    /\ InitOrderIdle
    /\ InitGenIdle
    /\ InitCLIIdle

\* the program has not panicked
Running == err # PanicSliceBounds

\* buf = id.String()
CallString ==
    /\ Running
    /\ buf' = String(id)
    /\ err' = NoErr
    /\ op' = "String"
    /\ prev' = op
    /\ UNCHANGED <<id, orderVars, genVars, cliVars>>

\* buf = id.Bytes()
CallBytes ==
    /\ Running
    /\ buf' = Bytes(id)
    /\ err' = NoErr
    /\ op' = "Bytes"
    /\ prev' = op
    /\ UNCHANGED <<id, orderVars, genVars, cliVars>>

\* id, err = FromString(string(buf))
CallFromString ==
    /\ Running
    /\ LET r == FromString(buf) IN id' = r.id /\ err' = r.err
    /\ op' = "FromString"
    /\ prev' = op
    /\ UNCHANGED <<buf, orderVars, genVars, cliVars>>

\* id, err = FromBytes(buf)
CallFromBytes ==
    /\ Running
    /\ LET r == FromBytes(buf) IN id' = r.id /\ err' = r.err
    /\ op' = "FromBytes"
    /\ prev' = op
    /\ UNCHANGED <<buf, orderVars, genVars, cliVars>>

NextCodec == CallString \/ CallBytes \/ CallFromString \/ CallFromBytes

SpecCodec == InitCodec /\ [][NextCodec]_vars

\* err = id.UnmarshalText(buf)
CallUnmarshalText ==
    /\ Running
    /\ LET r == UnmarshalText(id, buf) IN id' = r.id /\ err' = r.err
    /\ op' = "UnmarshalText"
    /\ prev' = op
    /\ UNCHANGED <<buf, orderVars, genVars, cliVars>>

\* err = id.Scan(value), value being string(buf), buf, nil or an int
CallScan ==
    /\ Running
    /\ \E kind \in ScanKinds :
          /\ LET r == Scan(id, kind, buf) IN id' = r.id /\ err' = r.err
          /\ op' = "Scan(" \o kind \o ")"
    /\ prev' = op
    /\ UNCHANGED <<buf, orderVars, genVars, cliVars>>

\* buf, err = id.MarshalJSON()
CallMarshalJSON ==
    /\ Running
    /\ buf' = MarshalJSON(id)
    /\ err' = NoErr
    /\ op' = "MarshalJSON"
    /\ prev' = op
    /\ UNCHANGED <<id, orderVars, genVars, cliVars>>

\* err = id.UnmarshalJSON(buf)
CallUnmarshalJSON ==
    /\ Running
    /\ LET r == UnmarshalJSON(id, buf) IN id' = r.id /\ err' = r.err
    /\ op' = "UnmarshalJSON"
    /\ prev' = op
    /\ UNCHANGED <<buf, orderVars, genVars, cliVars>>

\* the adapter harness: the caller of the codec harness, calling the text,
\* SQL and JSON adapters as well, on a receiver that may hold an ID already
InitAdapter ==
    /\ \/ id \in AdapterIDs /\ buf = << >>
       \/ id \in CodecReceivers /\ buf \in CodecReparsed
    /\ err = NoErr
    /\ op = "init"
    /\ prev = "init"
    /\ InitOrderIdle
    /\ InitGenIdle
    /\ InitCLIIdle

NextAdapter ==
    \/ CallString \/ CallBytes \/ CallFromString \/ CallFromBytes
    \/ CallUnmarshalText \/ CallScan \/ CallMarshalJSON \/ CallUnmarshalJSON

SpecAdapter == InitAdapter /\ [][NextAdapter]_vars

\* the Base64 harness: the caller of the codec harness, calling the two
\* Base64 helpers

\* texts given to FromString64: of 12 and of other lengths, in the Base32
\* alphabet and with a byte outside it
Base64Texts ==
    {Resize(TextA, n) : n \in {0, 11, 12, 13, 20, 24}}
    \cup {Vary(Resize(TextA, 12), p, c) : p \in {1, 8, 9, 12}, c \in {43, 47, 65, 105}}

InitBase64 ==
    /\ \/ id \in CodecIDs /\ buf = << >>
       \/ id = nilID /\ buf \in Base64Texts
    /\ err = NoErr
    /\ op = "init"
    /\ prev = "init"
    /\ InitOrderIdle
    /\ InitGenIdle
    /\ InitCLIIdle

\* buf = String64(id)
CallString64 ==
    /\ buf' = String64(id)
    /\ err' = NoErr
    /\ op' = "String64"
    /\ prev' = op
    /\ UNCHANGED <<id, orderVars, genVars, cliVars>>

\* p, err = FromString64(string(buf)); id = *p
CallFromString64 ==
    /\ LET r == FromString64(buf) IN id' = r.id /\ err' = r.err
    /\ op' = "FromString64"
    /\ prev' = op
    /\ UNCHANGED <<buf, orderVars, genVars, cliVars>>

NextBase64 == CallString64 \/ CallFromString64

SpecBase64 == InitBase64 /\ [][NextBase64]_vars

-----------------------------------------------------------------------------
(* Properties of the codec.                                                *)

\* the 32 symbols "0123456789abcdefghjkmnpqrstvwxyz", as a set of ASCII codes
AlphabetCodes ==
    (48..57) \cup (97..104) \cup {106, 107, 109, 110} \cup (112..116) \cup (118..122)

\* s is a text of exactly 24 alphabet symbols
ValidText(s) == Len(s) = 24 /\ \A i \in 1..Len(s) : s[i] \in AlphabetCodes

\* C1: FromString applied to the text String() has just produced from an ID
\* returns no error and that same ID, byte for byte.
C1_BytesRoundTrip ==
    [][(op = "String" /\ op' = "FromString") => (err' = NoErr /\ id' = id)]_vars

C1_Witness ==
    prev = "String" /\ op = "FromString" /\ err = NoErr /\ id = Vary(AllOnesID, 7, 64)

\* C2: a text of 24 alphabet symbols is accepted by FromString, and String()
\* of the ID it decoded to is that text again.
C2_TextRoundTrip ==
    [][(op = "FromString" /\ ValidText(buf) /\ op' = "String")
          => (err = NoErr /\ buf' = buf)]_vars

C2_Witness ==
    prev = "FromString" /\ op = "String" /\ buf = TextB /\ id # nilID

C12_AsStated ==
    (op = "FromString" /\ ValidText(ToLower(buf)))
        => (err = NoErr /\ String(id) = ToLower(buf))

C11_JSONNil ==
    /\ [](op = "MarshalJSON" =>
             IF id = nilID THEN buf = <<110, 117, 108, 108>>
             ELSE /\ Len(buf) = 26
                  /\ buf[1] = 34 /\ buf[26] = 34
                  /\ SubSeq(buf, 2, 25) = String(id))
    /\ []((op = "UnmarshalJSON" /\ buf = <<110, 117, 108, 108>>)
             => (err = NoErr /\ IsNil(id)))
    /\ [][(op = "MarshalJSON" /\ op' = "UnmarshalJSON")
             => (err' = NoErr /\ id' = id)]_vars

C11_Witness ==
    /\ prev = "MarshalJSON" /\ op = "UnmarshalJSON"
    /\ err = NoErr /\ id = AllOnesID /\ Len(buf) = 26

\* what Scan does with nil, a string and a value of an unsupported type
C16_ScanCommon ==
    /\ op = "Scan(nil)" => (id = nilID /\ err = NoErr)
    /\ op = "Scan(string)" => (id = FromString(buf).id /\ err = FromString(buf).err)
    /\ op = "Scan(int)" => err = ErrUnsupportedType

\* C16 as stated: Scan(nil) leaves the nil ID and returns no error; Scan of
\* a string gives the ID and error of FromString; Scan of a []byte holding
\* a valid 24-character text parses it as that text, and of a []byte of 15
\* raw bytes gives the ID of those bytes; Scan of a value of another type
\* returns a type-mismatch error.
C16_AsStated ==
    /\ C16_ScanCommon
    /\ (op = "Scan([]byte)" /\ ValidText(buf))
           => (id = FromString(buf).id /\ err = NoErr)
    /\ (op = "Scan([]byte)" /\ Len(buf) = 15) => (id = buf /\ err = NoErr)

\* C16 (amended): as above, but a []byte is always parsed as text, exactly
\* as the string of the same bytes: a []byte of 15 raw bytes is answered
\* with ErrInvalidID and the nil ID.
C16_ScanTriState ==
    /\ C16_ScanCommon
    /\ op = "Scan([]byte)" =>
          /\ id = FromString(buf).id /\ err = FromString(buf).err
          /\ ValidText(buf) => err = NoErr
          /\ Len(buf) = 15 => (id = nilID /\ err = ErrInvalidID)

C16_Witness ==
    op = "Scan([]byte)" /\ buf = TestVecID /\ id = nilID /\ err = ErrInvalidID

\* C19: UnmarshalJSON never crashes: on every input, the empty one, a single
\* byte and texts not between double quotes included, it returns either
\* ErrInvalidID, or nil with the receiver set, and nil only when the input
\* is null or a valid 24-character text between double quotes.
C19_AsStated ==
    op = "UnmarshalJSON" =>
        /\ err \in {NoErr, ErrInvalidID}
        /\ err = NoErr =>
              \/ buf = <<110, 117, 108, 108>> /\ id = nilID
              \/ /\ Len(buf) = 26 /\ buf[1] = 34 /\ buf[26] = 34
                 /\ ValidText(SubSeq(buf, 2, 25))
                 /\ String(id) = SubSeq(buf, 2, 25)

\* the calls that hand their input to UnmarshalText
TextParsers ==
    {"UnmarshalText", "FromString", "Scan(string)", "Scan([]byte)", "UnmarshalJSON"}

\* C20: whenever UnmarshalText, FromString, Scan of a string or of a []byte,
\* or UnmarshalJSON returns ErrInvalidID, the receiver is the nil ID
\* afterwards, whatever it held before; Scan of a value of an unsupported
\* type returns its error and leaves the receiver as it was.
C20_ReceiverOnFailure ==
    /\ []((op \in TextParsers /\ err = ErrInvalidID) => id = nilID)
    /\ [][op' = "Scan(int)" => (err' = ErrUnsupportedType /\ id' = id)]_vars

\* the receiver held the all-ones ID, whose JSON form is in buf, when
\* UnmarshalText rejected those 26 bytes
C20_Witness ==
    /\ prev = "MarshalJSON" /\ op = "UnmarshalText"
    /\ buf = <<34>> \o String(AllOnesID) \o <<34>>
    /\ err = ErrInvalidID /\ id = nilID

\* the 64 symbols of the standard Base64 alphabet, as a set of ASCII codes
Base64Codes == (65..90) \cup (97..122) \cup (48..57) \cup {43, 47}

\* C21: String64 of an ID is a text of 20 Base64 symbols, and FromString64
\* of the text String64 has just returned for an ID returns no error and
\* that ID, byte for byte.
C21_AsStated ==
    /\ [](op = "String64" =>
             (Len(buf) = 20 /\ \A i \in 1..Len(buf) : buf[i] \in Base64Codes))
    /\ [][(op = "String64" /\ op' = "FromString64")
             => (err' = NoErr /\ id' = id)]_vars

-----------------------------------------------------------------------------
(* The order harness: a caller holding a slice of IDs, comparing its       *)
(* elements and sorting it.                                                *)

MaxIDs == 3

\* IDs differing in the first and the last byte of the 5-byte prefix, in the
\* byte after it (the low byte of the timestamp) and in the last byte
CompareIDs ==
    {[i \in 1..rawLen |->
        IF i = 1 THEN w[1] ELSE IF i = 5 THEN w[2]
        ELSE IF i = 6 THEN w[3] ELSE IF i = 15 THEN w[4] ELSE 0] :
     w \in {0, 255} \X {0, 1, 255} \X {0, 1, 255} \X {0, 1}}

\* three prefixes, each with two different tails
SortIDs ==
    {[i \in 1..rawLen |->
        IF i = 4 THEN p[1] ELSE IF i = 5 THEN p[2]
        ELSE IF i = 6 THEN t ELSE IF i = 15 THEN 255 - t ELSE 0] :
     p \in {<<0, 1>>, <<0, 2>>, <<1, 0>>}, t \in {0, 255}}

RECURSIVE SeqsUpTo(_, _)
SeqsUpTo(S, n) ==
    IF n = 0 THEN {<< >>}
    ELSE LET shorter == SeqsUpTo(S, n - 1)
         IN  shorter \cup {Append(q, x) : q \in {r \in shorter : Len(r) = n - 1}, x \in S}

InitOrder ==
    /\ ids \in {<<x, y>> : x \in CompareIDs, y \in CompareIDs} \cup SeqsUpTo(SortIDs, MaxIDs)
    /\ ids0 = ids
    /\ cmp = NoCompare
    /\ op = "init"
    /\ prev = "init"
    /\ InitCodecIdle
    /\ InitGenIdle
    /\ InitCLIIdle

\* r = ids[i].Compare(ids[j])
CallCompare ==
    \E i \in 1..Len(ids), j \in 1..Len(ids) :
        /\ cmp' = [a |-> ids[i], b |-> ids[j], r |-> Compare(ids[i], ids[j])]
        /\ op' = "Compare"
        /\ prev' = op
        /\ UNCHANGED <<ids, ids0, codecVars, genVars, cliVars>>

\* Sort(ids)
CallSort ==
    /\ ids' = Sort(ids)
    /\ op' = "Sort"
    /\ prev' = op
    /\ UNCHANGED <<ids0, cmp, codecVars, genVars, cliVars>>

NextOrder == CallCompare \/ CallSort

SpecOrder == InitOrder /\ [][NextOrder]_vars

-----------------------------------------------------------------------------
(* Properties of the order.                                                *)

\* u is before v in the byte-lexicographic order of their first 5 bytes
PrefixLess(u, v) ==
    \E k \in 1..5 : u[k] < v[k] /\ \A m \in 1..(k - 1) : u[m] = v[m]

SamePrefix(u, v) == \A k \in 1..5 : u[k] = v[k]

Count(s, x) == Cardinality({i \in 1..Len(s) : s[i] = x})

\* C7: after Sort the slice is a permutation of what it held and is ordered
\* by Compare; [T3, T1, T2] with T1 < T2 < T3 comes out as [T1, T2, T3].
C7_Sort ==
    op = "Sort" =>
        /\ Len(ids) = Len(ids0)
        /\ \A i \in 1..Len(ids0) : Count(ids, ids0[i]) = Count(ids0, ids0[i])
        /\ \A i \in 1..Len(ids), j \in 1..Len(ids) :
              i < j => Compare(ids[i], ids[j]) <= 0
        /\ (/\ Len(ids0) = 3
            /\ PrefixLess(ids0[2], ids0[3])
            /\ PrefixLess(ids0[3], ids0[1])) => ids = <<ids0[2], ids0[3], ids0[1]>>

C7_Witness ==
    /\ op = "Sort" /\ Len(ids0) = 3
    /\ PrefixLess(ids0[2], ids0[3]) /\ PrefixLess(ids0[3], ids0[1])
    /\ ids0[1][6] = 0 /\ ids0[2][6] = 255
    /\ ids = <<ids0[2], ids0[3], ids0[1]>>

-----------------------------------------------------------------------------
(* The process: rtsig is set when the package is initialised, before any   *)
(* call; then New and NewWithTimestamp are invoked, one after another or   *)
(* concurrently, each invocation building its ID in its own local          *)
(* variable, and the caller tests IDs with IsNil.                          *)

NumCalls == 2

\* values of runtimeSignature()[0], the first byte of an md5 sum
SigSamples == {0, 197}

\* time.Now().UnixMilli() converted to uint64: 1670369682250 and the next ms
ClockSamples == {<<0, 0, 1, 132, 233, 202, 163, 74>>, <<0, 0, 1, 132, 233, 202, 163, 75>>}

\* supplied timestamps: 0, 255, 511, 2^48 - 1, 2^48 + 256
TsSamples ==
    { <<0, 0, 0, 0, 0, 0, 0, 0>>, <<0, 0, 0, 0, 0, 0, 0, 255>>,
      <<0, 0, 0, 0, 0, 0, 1, 255>>,
      <<0, 0, 255, 255, 255, 255, 255, 255>>, <<0, 1, 0, 0, 0, 0, 1, 0>> }

\* values of randUint64(), which is linked to runtime.fastrand and may hold
\* any 64 bits: 0, 1 and 0x0102030405060708
RandSamples ==
    { <<0, 0, 0, 0, 0, 0, 0, 0>>, <<0, 0, 0, 0, 0, 0, 0, 1>>, <<1, 2, 3, 4, 5, 6, 7, 8>> }

Zero64 == <<0, 0, 0, 0, 0, 0, 0, 0>>

IdleCall == [pc |-> "idle", fn |-> "-", ts |-> Zero64, rv |-> Zero64, ret |-> nilID]

\* a faulty NewWithTimestamp: the ID is built in one package-level variable
SlotShared(c) == 1

\* var id ID: the local variable of invocation c
Slot(c) == c

Init ==
    /\ rtsig \in {<<b>> : b \in SigSamples}
    /\ calls = [c \in 1..NumCalls |-> IdleCall]
    /\ local = [c \in 1..NumCalls |-> nilID]
    /\ probe = NoProbe
    /\ op = "init"
    /\ prev = "init"
    /\ InitCodecIdle
    /\ InitOrderIdle
    /\ InitCLIIdle

\* the entry of NewWithTimestamp(ts): var id ID and the six timestamp bytes
Enter(c, fn, ts) ==
    /\ calls[c].pc = "idle"
    /\ calls' = [calls EXCEPT ![c] = [@ EXCEPT !.pc = "ts", !.fn = fn, !.ts = ts]]
    /\ local' = [local EXCEPT ![Slot(c)] = WriteTimestamp(nilID, ts)]
    /\ UNCHANGED <<rtsig, probe, op, prev, codecVars, orderVars, cliVars>>

\* New(): NewWithTimestamp(uint64(time.Now().UnixMilli()))
New(c) ==
    /\ calls[c].pc = "idle"
    /\ \E now \in ClockSamples : Enter(c, "New", now)

\* NewWithTimestamp(ts) called with a supplied timestamp
NewWithTimestamp(c) ==
    /\ calls[c].pc = "idle"
    /\ \E ts \in TsSamples : Enter(c, "NewWithTimestamp", ts)

\* id[6] = rtsig[0]
ReadSignature(c) ==
    /\ calls[c].pc = "ts"
    /\ calls' = [calls EXCEPT ![c].pc = "sig"]
    /\ local' = [local EXCEPT ![Slot(c)] = WriteSignature(@, rtsig)]
    /\ UNCHANGED <<rtsig, probe, op, prev, codecVars, orderVars, cliVars>>

\* rv := randUint64(); the eight random bytes; return id
DrawAndReturn(c) ==
    /\ calls[c].pc = "sig"
    /\ \E rv \in RandSamples :
          LET built == WriteRandom(local[Slot(c)], rv)
          IN  /\ local' = [local EXCEPT ![Slot(c)] = built]
              /\ calls' = [calls EXCEPT ![c] = [@ EXCEPT !.pc = "done", !.rv = rv, !.ret = built]]
    /\ UNCHANGED <<rtsig, probe, op, prev, codecVars, orderVars, cliVars>>

\* the IDs the caller holds: those returned so far, and NilID()
Held == {NilID} \cup {calls[c].ret : c \in {k \in 1..NumCalls : calls[k].pc = "done"}}

\* x.IsNil() on an ID the caller holds
CallIsNil ==
    /\ \E x \in Held : probe' = [called |-> TRUE, id |-> x, r |-> IsNil(x)]
    /\ UNCHANGED <<rtsig, calls, local, op, prev, codecVars, orderVars, cliVars>>

Next ==
    \/ \E c \in 1..NumCalls : New(c)
    \/ \E c \in 1..NumCalls : NewWithTimestamp(c)
    \/ \E c \in 1..NumCalls : ReadSignature(c)
    \/ \E c \in 1..NumCalls : DrawAndReturn(c)
    \/ CallIsNil

Spec == Init /\ [][Next]_vars

\* the field harness: one goroutine that generates IDs with
\* NewWithTimestamp, each call running to its return, and reads the fields
\* of the IDs it holds

\* x := NewWithTimestamp(ts), the whole call
CallNewWithTimestamp(c) ==
    /\ calls[c].pc = "idle"
    /\ \E ts \in TsSamples, rv \in RandSamples :
          LET built == WriteRandom(WriteSignature(WriteTimestamp(nilID, ts), rtsig), rv)
          IN  /\ local' = [local EXCEPT ![Slot(c)] = built]
              /\ calls' = [calls EXCEPT ![c] = [pc |-> "done", fn |-> "NewWithTimestamp",
                                                ts |-> ts, rv |-> rv, ret |-> built]]
    /\ UNCHANGED <<rtsig, probe, op, prev, codecVars, orderVars, cliVars>>

\* x.Timestamp() on an ID the caller holds
CallTimestamp ==
    /\ \E x \in Held :
          probe' = [called |-> TRUE, fn |-> "Timestamp", id |-> x, r |-> Timestamp(x)]
    /\ UNCHANGED <<rtsig, calls, local, op, prev, codecVars, orderVars, cliVars>>

\* x.RuntimeSignature() on an ID the caller holds
CallRuntimeSignature ==
    /\ \E x \in Held :
          probe' = [called |-> TRUE, fn |-> "RuntimeSignature", id |-> x,
                    r |-> RuntimeSignature(x)]
    /\ UNCHANGED <<rtsig, calls, local, op, prev, codecVars, orderVars, cliVars>>

\* x.Random() on an ID the caller holds
CallRandom ==
    /\ \E x \in Held :
          probe' = [called |-> TRUE, fn |-> "Random", id |-> x, r |-> Random(x)]
    /\ UNCHANGED <<rtsig, calls, local, op, prev, codecVars, orderVars, cliVars>>

NextFields ==
    \/ \E c \in 1..NumCalls : CallNewWithTimestamp(c)
    \/ CallTimestamp
    \/ CallRuntimeSignature
    \/ CallRandom

SpecFields == Init /\ [][NextFields]_vars

-----------------------------------------------------------------------------
(* Properties of generation.                                               *)

Done(c) == calls[c].pc = "done"

\* u < v for two numbers written as byte sequences of one length, big-endian
LexLess(u, v) ==
    \E k \in 1..Len(u) : u[k] < v[k] /\ \A m \in 1..(k - 1) : u[m] = v[m]

\* h + 1 for a number written as a byte sequence, big-endian
RECURSIVE Inc(_)
Inc(h) ==
    IF Len(h) = 0 THEN << >>
    ELSE IF h[Len(h)] < 255 THEN [h EXCEPT ![Len(h)] = @ + 1]
    ELSE Append(Inc(SubSeq(h, 1, Len(h) - 1)), 0)

\* t1 < t2 and t2 - t1 >= 256, for two uint64: with t = 256 * h + l,
\* either h2 > h1 + 1, or h2 = h1 + 1 and l2 >= l1
Apart256(t1, t2) ==
    LET h1 == SubSeq(t1, 1, 7)
        h2 == SubSeq(t2, 1, 7)
    IN  /\ LexLess(h1, h2)
        /\ h2 = Inc(h1) => t2[8] >= t1[8]

\* t < 2^48
Below2p48(t) == t[1] = 0 /\ t[2] = 0

\* t mod 2^48
Low48(t) == SubSeq(t, 3, 8)

AllZero(x) == \A i \in 1..Len(x) : x[i] = 0

\* C6 as stated: for any two supplied timestamps ts1 < ts2 at least 256 ms
\* apart, the ID generated with ts1 compares below the ID generated with ts2.
C6_AsStated ==
    \A c1 \in 1..NumCalls, c2 \in 1..NumCalls :
        (Done(c1) /\ Done(c2) /\ Apart256(calls[c1].ts, calls[c2].ts))
            => Compare(calls[c1].ret, calls[c2].ret) < 0

\* C6 (amended): for any two supplied timestamps ts1 < ts2 < 2^48 at least
\* 256 ms apart, the ID generated with ts1 compares below the ID generated
\* with ts2, whatever signature and random values are drawn.
C6_NearOrder ==
    \A c1 \in 1..NumCalls, c2 \in 1..NumCalls :
        (/\ Done(c1) /\ Done(c2)
         /\ Apart256(calls[c1].ts, calls[c2].ts)
         /\ Below2p48(calls[c2].ts))
            => Compare(calls[c1].ret, calls[c2].ret) < 0

C6_Witness ==
    /\ Done(1) /\ Done(2)
    /\ calls[1].ts = <<0, 0, 0, 0, 0, 0, 0, 255>>
    /\ calls[2].ts = <<0, 0, 0, 0, 0, 0, 1, 255>>
    /\ calls[1].rv = <<1, 2, 3, 4, 5, 6, 7, 8>> /\ calls[2].rv = Zero64
    /\ Compare(calls[1].ret, calls[2].ret) < 0

\* every returned ID is whole: 15 bytes, its own call's timestamp and draw,
\* and the process's signature in byte 6
C8_Returned ==
    \A c \in 1..NumCalls :
        Done(c) =>
            /\ DOMAIN calls[c].ret = 1..15
            /\ calls[c].ret[7] = rtsig[1]
            /\ \A i \in 1..6 : calls[c].ret[i] = calls[c].ts[i + 2]
            /\ \A i \in 1..8 : calls[c].ret[7 + i] = calls[c].rv[i]

\* C8: rtsig is never written after the package is initialised, and in every
\* interleaving of the calls every returned ID carries that signature byte
\* and is fully written from its own call's timestamp and draw.
C8_SignatureStable == [](C8_Returned) /\ [][rtsig' = rtsig]_vars

C8_Witness ==
    /\ Done(1) /\ Done(2)
    /\ calls[1].ts # calls[2].ts /\ calls[1].rv # calls[2].rv
    /\ calls[1].ret[7] = 197 /\ calls[2].ret[7] = 197

C10_IsNilExact == probe.called => (probe.r <=> AllZero(probe.id))

\* C10 as stated: IsNil() is true exactly for the all-zero ID, which NilID()
\* returns, and no generated ID is the nil ID.
C10_AsStated ==
    /\ C10_IsNilExact
    /\ AllZero(NilID)
    /\ \A c \in 1..NumCalls : Done(c) => ~AllZero(calls[c].ret)

\* C10 (amended): IsNil() is true exactly for the all-zero ID, which NilID()
\* returns, and a generated ID is the nil ID only when the timestamp is 0
\* modulo 2^48, the signature byte is 0 and the value drawn is 0.
C10_NilOnlyFromZeros ==
    /\ C10_IsNilExact
    /\ AllZero(NilID)
    /\ \A c \in 1..NumCalls :
          (Done(c) /\ AllZero(calls[c].ret))
              => (AllZero(Low48(calls[c].ts)) /\ rtsig[1] = 0 /\ AllZero(calls[c].rv))

C10_Witness ==
    /\ probe.called /\ ~probe.r
    /\ \E c \in 1..NumCalls :
          /\ Done(c) /\ calls[c].ret = probe.id
          /\ AllZero(calls[c].ts) /\ AllZero(calls[c].rv) /\ rtsig[1] = 197

\* t mod 2^48, as a 64-bit number
Mod2p48(t) == <<0, 0>> \o Low48(t)

\* the last call was x.fn() on the ID returned by call c
Probed(fn, c) == probe.called /\ probe.fn = fn /\ Done(c) /\ probe.id = calls[c].ret

\* C14: NewWithTimestamp(ts) stores the low 48 bits of ts big-endian in bytes
\* 0..5; Timestamp() of the returned ID is ts mod 2^48 (ts itself when
\* ts < 2^48), is never negative, and is the same for equal ts mod 2^48
\* whatever the signature and the random bytes are.
C14_TimestampField ==
    /\ \A c \in 1..NumCalls :
          Done(c) => \A k \in 0..5 : calls[c].ret[k + 1] = U64Byte(calls[c].ts, 40 - 8 * k)
    /\ \A c \in 1..NumCalls :
          Probed("Timestamp", c) =>
              /\ probe.r = Mod2p48(calls[c].ts)
              /\ Below2p48(calls[c].ts) => probe.r = calls[c].ts
              /\ probe.r[1] < 128
    /\ \A c1 \in 1..NumCalls, c2 \in 1..NumCalls :
          (Done(c1) /\ Done(c2) /\ Low48(calls[c1].ts) = Low48(calls[c2].ts))
              => Timestamp(calls[c1].ret) = Timestamp(calls[c2].ret)

C14_Witness ==
    /\ Probed("Timestamp", 1)
    /\ calls[1].ts = <<0, 1, 0, 0, 0, 0, 1, 0>> /\ calls[1].rv = <<1, 2, 3, 4, 5, 6, 7, 8>>
    /\ rtsig[1] = 197
    /\ probe.r = <<0, 0, 0, 0, 0, 0, 1, 0>>

\* C15: generation draws a 48-bit value and writes it big-endian after the
\* signature byte; Random() returns exactly the value drawn, which is below
\* 2^48; two generated IDs with equal Timestamp(), equal signature byte and
\* equal Random() are equal byte for byte.
C15_AsStated ==
    /\ \A c \in 1..NumCalls : Done(c) => Below2p48(calls[c].rv)
    /\ \A c \in 1..NumCalls :
          Probed("Random", c) => (probe.r = calls[c].rv /\ Below2p48(probe.r))
    /\ \A c1 \in 1..NumCalls, c2 \in 1..NumCalls :
          (/\ Done(c1) /\ Done(c2)
           /\ Timestamp(calls[c1].ret) = Timestamp(calls[c2].ret)
           /\ RuntimeSignature(calls[c1].ret) = RuntimeSignature(calls[c2].ret)
           /\ Random(calls[c1].ret) = Random(calls[c2].ret))
              => calls[c1].ret = calls[c2].ret

-----------------------------------------------------------------------------
(* Command rid (cmd/rid/main.go): func main, from flag.Parse() to its exit. *)
(* cli.log lists the calls into package rid, cli.out the lines printed.     *)

MaxCount == 3

MaxArgs == 2

\* values of flag -c: the default 1, and any int the user gives
CountSamples == (-1)..MaxCount

\* positional arguments: a valid text, the 20-character text of the former
\* layout, and the empty string
ArgSamples == {TextA, TestVecText, << >>}

\* IDs rid.New() returns
NewSamples == {AllOnesID, TestVecID}

\* a faulty guard: one argument is let through
UsageErrorLax(count, args) == count > 1 /\ Len(args) > 1

\* count > 1 && len(args) > 0
UsageError(count, args) == count > 1 /\ Len(args) > 0

\* a faulty loop: break instead of continue after an argument that failed
NextArgBreak(i, n, failed) == IF failed THEN n + 1 ELSE i + 1

\* the index of the argument the range loop takes after argument i of n
NextArg(i, n, failed) == i + 1

InitCLI ==
    /\ \E count \in CountSamples, args \in SeqsUpTo(ArgSamples, MaxArgs) :
          cli = [pc |-> "start", count |-> count, args |-> args, i |-> 1,
                 errors |-> 0, c |-> 0, log |-> << >>, out |-> << >>, status |-> -1]
    /\ op = "init"
    /\ prev = "init"
    /\ InitCodecIdle
    /\ InitOrderIdle
    /\ InitGenIdle

\* if count > 1 && len(args) > 0 { ...; flag.Usage(); os.Exit(1) }; errors := 0
CheckUsage ==
    /\ cli.pc = "start"
    /\ cli' = IF UsageError(cli.count, cli.args)
              THEN [cli EXCEPT !.pc = "exit", !.status = 1,
                               !.out = @ \o << [stream |-> "stderr", kind |-> "error: -c and args",
                                                arg |-> << >>, val |-> << >>],
                                               [stream |-> "stderr", kind |-> "usage",
                                                arg |-> << >>, val |-> << >>] >>]
              ELSE [cli EXCEPT !.pc = "loop", !.errors = 0]
    /\ UNCHANGED <<op, prev, codecVars, orderVars, genVars>>

\* one turn of for _, arg := range args { id, err := rid.FromString(arg); ... }
ParseArg ==
    /\ cli.pc = "loop"
    /\ cli.i <= Len(cli.args)
    /\ LET arg == cli.args[cli.i]
           r == FromString(arg)
           failed == r.err # NoErr
       IN  cli' = [cli EXCEPT
                     !.log = Append(@, [fn |-> "FromString", arg |-> arg, id |-> r.id]),
                     !.errors = IF failed THEN @ + 1 ELSE @,
                     !.out = Append(@, IF failed
                                       THEN [stream |-> "stdout", kind |-> "[%s] %s",
                                             arg |-> arg, val |-> r.err]
                                       ELSE [stream |-> "stdout", kind |-> "[%s] details",
                                             arg |-> arg, val |-> r.id]),
                     !.i = NextArg(cli.i, Len(cli.args), failed)]
    /\ UNCHANGED <<op, prev, codecVars, orderVars, genVars>>

\* after the loop: if errors > 0 { fmt.Printf("%d error(s)\n", errors); os.Exit(1) }
Tally ==
    /\ cli.pc = "loop"
    /\ cli.i > Len(cli.args)
    /\ cli' = IF cli.errors > 0
              THEN [cli EXCEPT !.pc = "exit", !.status = 1,
                               !.out = Append(@, [stream |-> "stdout", kind |-> "%d error(s)",
                                                  arg |-> << >>, val |-> cli.errors])]
              ELSE [cli EXCEPT !.pc = "gen", !.c = 0]
    /\ UNCHANGED <<op, prev, codecVars, orderVars, genVars>>

\* one turn of for c := 0; c < count; c++ { fmt.Fprintf(os.Stdout, "%s\n", rid.New()) }
Generate ==
    /\ cli.pc = "gen"
    /\ Len(cli.args) = 0
    /\ cli.c < cli.count
    /\ \E x \in NewSamples :
          cli' = [cli EXCEPT
                    !.log = Append(@, [fn |-> "New", arg |-> << >>, id |-> x]),
                    !.out = Append(@, [stream |-> "stdout", kind |-> "%s",
                                       arg |-> << >>, val |-> String(x)]),
                    !.c = @ + 1]
    /\ UNCHANGED <<op, prev, codecVars, orderVars, genVars>>

\* main returns: the exit status is 0
Return ==
    /\ cli.pc = "gen"
    /\ Len(cli.args) # 0 \/ cli.c >= cli.count
    /\ cli' = [cli EXCEPT !.pc = "exit", !.status = 0]
    /\ UNCHANGED <<op, prev, codecVars, orderVars, genVars>>

NextCLI == CheckUsage \/ ParseArg \/ Tally \/ Generate \/ Return

\* main is one goroutine that runs until it exits: no step is put off forever
SpecCLI == InitCLI /\ [][NextCLI]_vars /\ WF_vars(NextCLI)

-----------------------------------------------------------------------------
(* Properties of command rid.                                              *)

Exited == cli.pc = "exit"

\* the calls of fn in the log
CallsOf(fn) == {k \in 1..Len(cli.log) : cli.log[k].fn = fn}

\* the repeat count is greater than 1 and there is a positional argument
Mixed == cli.count > 1 /\ Len(cli.args) >= 1

\* C17: when the repeat count is greater than 1 and at least one positional
\* argument is given, no FromString and no New call is ever made, and the
\* command ends with exit status 1 after printing the usage error.
C17_UsageGuard ==
    /\ [](Mixed => cli.log = << >>)
    /\ []((Mixed /\ Exited) =>
             /\ cli.status = 1
             /\ \E k \in 1..Len(cli.out) : cli.out[k].kind = "usage"
             /\ \A k \in 1..Len(cli.out) : cli.out[k].stream = "stderr")
    /\ (Mixed ~> (Exited /\ cli.status = 1))

C17_Witness ==
    /\ Exited /\ cli.count = 2 /\ cli.args = <<TextA>>
    /\ cli.status = 1 /\ cli.log = << >>

\* the arguments that FromString rejects
Failing == {k \in 1..Len(cli.args) : FromString(cli.args[k]).err # NoErr}

\* C18: with no positional argument and repeat count N the command calls
\* New() N times (never for N below 1), prints each result on a line of its
\* own and never calls FromString; with positional arguments and a count
\* not above 1 it calls FromString once per argument, in order, whether or
\* not an earlier argument failed, prints each failing argument with its
\* error, never calls New(), and exits with status 1 exactly when an
\* argument failed.  The command always exits.
C18_Modes ==
    /\ [](Len(cli.args) = 0 =>
             /\ CallsOf("FromString") = {}
             /\ Len(cli.log) <= (IF cli.count > 0 THEN cli.count ELSE 0)
             /\ Len(cli.out) = Len(cli.log)
             /\ \A k \in 1..Len(cli.log) :
                   /\ cli.out[k].kind = "%s" /\ cli.out[k].stream = "stdout"
                   /\ cli.out[k].val = String(cli.log[k].id)
             /\ Exited => /\ Len(cli.log) = (IF cli.count > 0 THEN cli.count ELSE 0)
                           /\ cli.status = 0)
    /\ []((Len(cli.args) >= 1 /\ cli.count <= 1) =>
             /\ CallsOf("New") = {}
             /\ Len(cli.log) <= Len(cli.args)
             /\ \A k \in 1..Len(cli.log) : cli.log[k].arg = cli.args[k]
             /\ \A k \in 1..Len(cli.log) :
                   k \in Failing =>
                       /\ cli.out[k].kind = "[%s] %s"
                       /\ cli.out[k].arg = cli.args[k]
             /\ Exited => /\ Len(cli.log) = Len(cli.args)
                           /\ (cli.status = 1) <=> (Failing # {})
                           /\ cli.status \in {0, 1})
    /\ <>Exited

C18_Witness ==
    /\ Exited /\ cli.count = 1 /\ cli.args = <<TestVecText, TextA>>
    /\ Len(cli.log) = 2 /\ cli.log[2].id = FromString(TextA).id
    /\ cli.status = 1

=============================================================================
